---- MODULE Spec2Model ----
(***************************************************************************)
(* Model of myapp_v1.2.py, a Streamlit dashboard over a CSV of F&O         *)
(* delivery data.  Streamlit re-executes the whole script, top to bottom,  *)
(* after every widget interaction; the only state that survives from one   *)
(* execution to the next is the CSV file on disk and the widgets' session  *)
(* state.  One action of the model is one interaction followed by the      *)
(* complete re-execution of the script.                                    *)
(*                                                                         *)
(* A DataFrame is a sequence of rows; a row is a function from column      *)
(* names (and "index", the pandas index label) to cell values.             *)
(* Trade dates are day ordinals (days since 1970-01-01), NaT is the        *)
(* unparseable/missing date.  Numeric cells are integers, with NaN and the *)
(* two infinities as distinguished values.                                 *)
(***************************************************************************)
EXTENDS Integers, Sequences, FiniteSets, TLC

VARIABLES
    file,                     \* rows of Merged_FO_Delivery_Data.csv
    date_filter_option,       \* radio "Select Date Filter"
    custom_range,             \* session state of the date_input (<<>> = not rendered)
    display_columns,          \* multiselect "Select Additional Columns to Display"
    select_all,               \* checkbox "Select All Symbols"
    picked_tickers,           \* session state of multiselect "Select Symbols"
    selected_numeric_columns, \* multiselect "Select Numeric Columns to Apply Filters"
    value_filter,             \* radio value_filter_{col}, per selected column
    slider_minmax,            \* (min_value, max_value) each range slider was built with
    filters,                  \* dict filters: col -> (lo, hi) returned by slider_{col}
    page_number,              \* slider "Scroll Through Data" (NoPage = not rendered)
    page_max,                 \* max_value the page slider was built with
    df,                       \* the script's df when it finishes (the working set)
    date_range,               \* [start, end]
    filtered_df,              \* filtered_df when the script finishes (symbols as links)
    filtered_df_paginated,    \* the displayed page
    csv,                      \* the download: header followed by the rows
    prev_rows                 \* len(df) at the end of the previous execution

vars == << file, date_filter_option, custom_range, display_columns, select_all,
           picked_tickers, selected_numeric_columns, value_filter, slider_minmax,
           filters, page_number, page_max, df, date_range, filtered_df,
           filtered_df_paginated, csv, prev_rows >>

----------------------------------------------------------------------------
(* Bounds of the model *)

MaxRows == 3          \* longest CSV of the numeric session
MaxWindowRows == 3    \* longest CSV of the window session
MaxPageRows == 25     \* longest CSV of the paging session
MaxStride == 2        \* the paging CSVs alternate two symbols every 1..MaxStride rows

(* Values *)

NaT == 0              \* pd.NaT
NaN == 2000           \* np.nan (never compared by magnitude)
PosInf == 1000        \* np.inf, above every finite cell
NegInf == -1000       \* -np.inf, below every finite cell
NoPage == 0           \* the page slider is not rendered

rows_per_page == 10

MinOf(S) == CHOOSE x \in S : \A y \in S : x <= y
MaxOf(S) == CHOOSE x \in S : \A y \in S : x >= y
Range(s) == {s[i] : i \in DOMAIN s}

RECURSIVE Unique(_)
Unique(s) ==
    IF s = <<>> THEN <<>>
    ELSE LET h == s[1]
             t == Unique(Tail(s))
         IN  <<h>> \o SelectSeq(t, LAMBDA x : x # h)

(* float comparisons: every comparison with NaN is False *)
Gt(x, y) == x # NaN /\ y # NaN /\ x > y
Lt(x, y) == x # NaN /\ y # NaN /\ x < y
Ge(x, y) == x # NaN /\ y # NaN /\ x >= y
Le(x, y) == x # NaN /\ y # NaN /\ x <= y
isfinite(x) == x \notin {NaN, PosInf, NegInf}

(* The day ordinal (days since 1970-01-01) of a calendar date *)
DaysFromCivil(y, m, d) ==
    LET yy == IF m <= 2 THEN y - 1 ELSE y
        era == yy \div 400
        yoe == yy - era * 400
        mp == IF m > 2 THEN m - 3 ELSE m + 9
        doy == (153 * mp + 2) \div 5 + d - 1
        doe == yoe * 365 + yoe \div 4 - yoe \div 100 + doy
    IN  era * 146097 + doe - 719468

Day0 == DaysFromCivil(2024, 6, 10)

(* Timestamp comparisons: every comparison with NaT is False *)
DateGe(x, y) == x # NaT /\ y # NaT /\ x >= y
DateLe(x, y) == x # NaT /\ y # NaT /\ x <= y
(* Timestamp - Timedelta(days=n); NaT - Timedelta is NaT *)
MinusDays(d, n) == IF d = NaT THEN NaT ELSE d - n

----------------------------------------------------------------------------
(* The CSV and the Loader *)

csv_columns == <<"Trade Date", "Ticker Symbol", "CHG%", "Close">>

CsvRow(d, s, chg, close) ==
    ("Trade Date" :> d) @@ ("Ticker Symbol" :> s) @@ ("CHG%" :> chg) @@ ("Close" :> close)

(* read_csv: the rows get the RangeIndex 0..n-1; the text NaN is a missing cell *)
read_csv(f) == [i \in 1..Len(f) |-> f[i] @@ ("index" :> i - 1)]

(* to_datetime(errors='coerce') and dropna(subset=['Trade Date']) *)
DropInvalidDates(frame) == SelectSeq(frame, LAMBDA r : r["Trade Date"] # NaT)

(* Variant: the frame is loaded once and the script goes on from the df the
   previous execution left *)
CachedFrame == df

(* The frame every execution of the script starts from *)
LoadedFrame == DropInvalidDates(read_csv(file))

Dates(frame) == {frame[i]["Trade Date"] : i \in DOMAIN frame}
latest_date(frame) == IF frame = <<>> THEN NaT ELSE MaxOf(Dates(frame))
min_date(frame) == IF frame = <<>> THEN NaT ELSE MinOf(Dates(frame))

yesterday(latest) == MinusDays(latest, 1)
(* Variant: Timedelta(days=1) for Timedelta(weeks=1) *)
last_week_days(latest) == MinusDays(latest, 1)
last_week(latest) == MinusDays(latest, 7)
last_month(latest) == MinusDays(latest, 30)

DateOptions == {"Latest Date", "Yesterday", "Last 1 Week", "Last 1 Month", "Custom Date Range"}

(* Filter Resolver; custom is the date_input's session value, <<>> when it has none *)
ResolveDateRange(frame, option, custom) ==
    LET latest == latest_date(frame)
    IN  CASE option = "Latest Date" -> <<latest, latest>>
          [] option = "Yesterday" -> <<yesterday(latest), latest>>
          [] option = "Last 1 Week" -> <<last_week(latest), latest>>
          [] option = "Last 1 Month" -> <<last_month(latest), latest>>
          [] OTHER -> IF custom = <<>> THEN <<min_date(frame), latest_date(frame)>>
                      ELSE custom

----------------------------------------------------------------------------
(* Column Selector *)

default_columns ==
    << "Trade Date", "Ticker Symbol", "Cum-OI", "Roll Over %", "OI Change %",
       "CUMOI CE", "CUMOI PE", "Close", "VWAP", "Volume", "AVO", "CHG%",
       "Change% 22D", "TTQ%5", "DQAVG%5", "ACTION%5", "Volume_AVG22",
       "DELIV_QTY_AVG22", "ACTION_AVG22", "TTQ%22", "DQAVG%22", "ACTION%22" >>

available_columns == SelectSeq(default_columns, LAMBDA c : c \in Range(csv_columns))

(* Symbols: dropna().unique().tolist() *)
symbols(frame) ==
    Unique(SelectSeq([i \in DOMAIN frame |-> frame[i]["Ticker Symbol"]],
                     LAMBDA s : s # "NaN"))

DefaultPicks(syms) == Range(SubSeq(syms, 1, IF Len(syms) < 5 THEN Len(syms) ELSE 5))

selected_tickers(frame, all, picks) ==
    IF all THEN Range(symbols(frame)) ELSE picks

(* select_dtypes(include=['int64', 'float64']) *)
numeric_columns == SelectSeq(csv_columns, LAMBDA c : c \in {"CHG%", "Close"})
default_numeric_filters == <<"CHG%", "Change OI", "Change in OI PE AVO">>
available_numeric_filters ==
    SelectSeq(default_numeric_filters, LAMBDA c : c \in Range(numeric_columns))

----------------------------------------------------------------------------
(* Numeric Range Engine *)

ValueFilters == {"All", "Only Positive (>0)", "Only Negative (<0)"}

(* pd.to_numeric(errors='coerce') on an int64/float64 column keeps every cell *)
to_numeric(v) == v
(* replace([np.inf, -np.inf], np.nan) *)
replace_inf(v) == IF v \in {PosInf, NegInf} THEN NaN ELSE v

Scrub(frame, col) ==
    [i \in DOMAIN frame |-> [frame[i] EXCEPT ![col] = replace_inf(to_numeric(@))]]

default_value_filter(col) ==
    IF col \in Range(available_numeric_filters) THEN "Only Positive (>0)" ELSE "All"

(* Variant: the sign tests let zero through *)
ApplyValueFilterNonStrict(frame, col, mode) ==
    CASE mode = "Only Positive (>0)" -> SelectSeq(frame, LAMBDA r : Ge(r[col], 0))
      [] mode = "Only Negative (<0)" -> SelectSeq(frame, LAMBDA r : Le(r[col], 0))
      [] OTHER -> frame

(* df = df[df[col] > 0] / df = df[df[col] < 0] *)
ApplyValueFilter(frame, col, mode) ==
    CASE mode = "Only Positive (>0)" -> SelectSeq(frame, LAMBDA r : Gt(r[col], 0))
      [] mode = "Only Negative (<0)" -> SelectSeq(frame, LAMBDA r : Lt(r[col], 0))
      [] OTHER -> frame

(* df[col].dropna().min() / .max(); NaN over no values *)
ColumnValues(frame, col) == {frame[i][col] : i \in DOMAIN frame} \ {NaN}
min_val(frame, col) ==
    IF ColumnValues(frame, col) = {} THEN NaN ELSE MinOf(ColumnValues(frame, col))
max_val(frame, col) ==
    IF ColumnValues(frame, col) = {} THEN NaN ELSE MaxOf(ColumnValues(frame, col))

(* st.sidebar.slider(label, min, max, (min, max), key=...): the session value is
   kept while the slider is rebuilt with the same bounds, else it is the default *)
SliderValue(col, lo, hi, sessValue, sessMinMax) ==
    IF col \in DOMAIN sessValue /\ col \in DOMAIN sessMinMax /\ sessMinMax[col] = <<lo, hi>>
    THEN sessValue[col] ELSE <<lo, hi>>

(* Variant: min and max are taken before the column's own sign filter *)
LoopBodyRangeFirst(acc, col, sessMode, sessValue, sessMinMax) ==
    LET scrubbed == Scrub(acc.df, col)
        mode == IF col \in DOMAIN sessMode THEN sessMode[col] ELSE default_value_filter(col)
        kept == ApplyValueFilter(scrubbed, col, mode)
        lo == min_val(scrubbed, col)
        hi == max_val(scrubbed, col)
    IN  IF isfinite(lo) /\ isfinite(hi)
        THEN [ df |-> kept,
               value_filter |-> acc.value_filter @@ (col :> mode),
               filters |-> acc.filters @@ (col :> SliderValue(col, lo, hi, sessValue, sessMinMax)),
               slider_minmax |-> acc.slider_minmax @@ (col :> <<lo, hi>>) ]
        ELSE [ df |-> kept,
               value_filter |-> acc.value_filter @@ (col :> mode),
               filters |-> acc.filters,
               slider_minmax |-> acc.slider_minmax ]

(* One iteration of the loop over selected_numeric_columns *)
LoopBody(acc, col, sessMode, sessValue, sessMinMax) ==
    LET scrubbed == Scrub(acc.df, col)
        mode == IF col \in DOMAIN sessMode THEN sessMode[col] ELSE default_value_filter(col)
        kept == ApplyValueFilter(scrubbed, col, mode)
        lo == min_val(kept, col)
        hi == max_val(kept, col)
    IN  IF isfinite(lo) /\ isfinite(hi)
        THEN [ df |-> kept,
               value_filter |-> acc.value_filter @@ (col :> mode),
               filters |-> acc.filters @@ (col :> SliderValue(col, lo, hi, sessValue, sessMinMax)),
               slider_minmax |-> acc.slider_minmax @@ (col :> <<lo, hi>>) ]
        ELSE [ df |-> kept,
               value_filter |-> acc.value_filter @@ (col :> mode),
               filters |-> acc.filters,
               slider_minmax |-> acc.slider_minmax ]

RECURSIVE NumericLoop(_, _, _, _, _, _)
NumericLoop(acc, cols, k, sessMode, sessValue, sessMinMax) ==
    IF k > Len(cols) THEN acc
    ELSE NumericLoop(LoopBody(acc, cols[k], sessMode, sessValue, sessMinMax),
                     cols, k + 1, sessMode, sessValue, sessMinMax)

NumericRangeEngine(frame, cols, sessMode, sessValue, sessMinMax) ==
    NumericLoop([df |-> frame, value_filter |-> <<>>, filters |-> <<>>, slider_minmax |-> <<>>],
                cols, 1, sessMode, sessValue, sessMinMax)

----------------------------------------------------------------------------
(* Filter Compositor *)

SymbolFilter(frame, tickers) ==
    SelectSeq(frame, LAMBDA r : r["Ticker Symbol"] \in tickers)

(* Variant: the window's end is exclusive *)
DateFilterOpenEnd(frame, range) ==
    SelectSeq(frame, LAMBDA r : DateGe(r["Trade Date"], range[1])
                                /\ DateLe(r["Trade Date"], range[2])
                                /\ r["Trade Date"] # range[2])

DateFilter(frame, range) ==
    SelectSeq(frame, LAMBDA r : DateGe(r["Trade Date"], range[1])
                                /\ DateLe(r["Trade Date"], range[2]))

RangeFilter(frame, col, lo, hi) ==
    SelectSeq(frame, LAMBDA r : Ge(r[col], lo) /\ Le(r[col], hi))

(* for col, (min_val, max_val) in filters.items(), in insertion order *)
RECURSIVE RangeFilters(_, _, _, _)
RangeFilters(frame, cols, k, ranges) ==
    IF k > Len(cols) THEN frame
    ELSE IF cols[k] \in DOMAIN ranges
         THEN RangeFilters(RangeFilter(frame, cols[k], ranges[cols[k]][1], ranges[cols[k]][2]),
                           cols, k + 1, ranges)
         ELSE RangeFilters(frame, cols, k + 1, ranges)

(* Link Transformer *)
make_tradingview_link(ticker) ==
    "[" \o ticker \o "](https://www.tradingview.com/chart/?symbol=NSE:" \o ticker \o ")"

LinkTransform(frame) ==
    [i \in DOMAIN frame |->
        [frame[i] EXCEPT !["Ticker Symbol"] = make_tradingview_link(@)]]

(* Variant: the symbols are rewritten to links inside the filter step *)
CompositorLinked(frame, tickers, range, cols, ranges) ==
    LinkTransform(RangeFilters(DateFilter(SymbolFilter(frame, tickers), range), cols, 1, ranges))

(* Filter Compositor: symbol, then date window, then every range *)
Compositor(frame, tickers, range, cols, ranges) ==
    RangeFilters(DateFilter(SymbolFilter(frame, tickers), range), cols, 1, ranges)

----------------------------------------------------------------------------
(* Paginator and Exporter *)

(* Variant: the last page is ceil(num_rows / rows_per_page) *)
MaxPageCeil(num_rows) == (num_rows + rows_per_page - 1) \div rows_per_page

MaxPage(num_rows) == (num_rows \div rows_per_page) + 1

(* frame.iloc[start_row:end_row], start_row and end_row 0-based, end exclusive *)
iloc(frame, start_row, end_row) ==
    SubSeq(frame, start_row + 1, IF end_row < Len(frame) THEN end_row ELSE Len(frame))

(* The page slider: rendered only when num_rows > rows_per_page; its session value
   is kept while its maximum is the same, else it is the default 1 *)
PageSlider(num_rows, sessPage, sessMax) ==
    IF num_rows > rows_per_page
    THEN IF sessPage # NoPage /\ sessMax = MaxPage(num_rows) THEN sessPage ELSE 1
    ELSE NoPage

(* Variant: start_row = page_number * rows_per_page *)
PaginateFromPage(frame, page) ==
    IF Len(frame) > rows_per_page
    THEN iloc(frame, page * rows_per_page, page * rows_per_page + rows_per_page)
    ELSE frame

Paginate(frame, page) ==
    IF Len(frame) > rows_per_page
    THEN iloc(frame, (page - 1) * rows_per_page, (page - 1) * rows_per_page + rows_per_page)
    ELSE frame

(* frame[display_columns] *)
Project(frame, cols) ==
    [i \in DOMAIN frame |-> [j \in DOMAIN cols |-> frame[i][cols[j]]]]

(* to_csv(index=False): the header line, then one line per row *)
to_csv(frame, cols) == <<cols>> \o Project(frame, cols)

(* Variant: the download is made from the displayed page *)
ExportPage(filtered, paginated, cols) == to_csv(paginated, cols)

(* csv = filtered_df[display_columns].to_csv(index=False), with filtered_df and
   filtered_df_paginated both in scope *)
Export(filtered, paginated, cols) == to_csv(filtered, cols)

----------------------------------------------------------------------------
(* One execution of the script on the widgets' session state *)

Script(loaded, option, custom, dcols, all, picks, ncols, sessMode, sessValue, sessMinMax, sessPage, sessMaxPage) ==
    LET range == ResolveDateRange(loaded, option, custom)
        tickers == selected_tickers(loaded, all, picks)
        eng == NumericRangeEngine(loaded, ncols, sessMode, sessValue, sessMinMax)
        composed == Compositor(eng.df, tickers, range, ncols, eng.filters)
        linked == LinkTransform(composed)
        page == PageSlider(Len(linked), sessPage, sessMaxPage)
    IN  [ custom_range |-> IF option = "Custom Date Range" THEN range ELSE <<>>,
          picked_tickers |-> IF all THEN {} ELSE picks,
          value_filter |-> eng.value_filter,
          slider_minmax |-> eng.slider_minmax,
          filters |-> eng.filters,
          page_number |-> page,
          page_max |-> IF Len(linked) > rows_per_page THEN MaxPage(Len(linked)) ELSE NoPage,
          df |-> eng.df,
          date_range |-> range,
          filtered_df |-> linked,
          filtered_df_paginated |-> Paginate(linked, page),
          csv |-> Export(linked, Paginate(linked, page), dcols) ]

Finish(r, option, dcols, all, ncols) ==
    /\ date_filter_option' = option
    /\ display_columns' = dcols
    /\ select_all' = all
    /\ selected_numeric_columns' = ncols
    /\ custom_range' = r.custom_range
    /\ picked_tickers' = r.picked_tickers
    /\ value_filter' = r.value_filter
    /\ slider_minmax' = r.slider_minmax
    /\ filters' = r.filters
    /\ page_number' = r.page_number
    /\ page_max' = r.page_max
    /\ df' = r.df
    /\ date_range' = r.date_range
    /\ filtered_df' = r.filtered_df
    /\ filtered_df_paginated' = r.filtered_df_paginated
    /\ csv' = r.csv
    /\ prev_rows' = Len(df)
    /\ UNCHANGED file

(* The script's first execution in a session: every widget at its default *)
FirstRun(f) ==
    LET loaded == DropInvalidDates(read_csv(f))
        r == Script(loaded, "Latest Date", <<>>, available_columns, TRUE, {},
                    available_numeric_filters, <<>>, <<>>, <<>>, NoPage, NoPage)
    IN  /\ file = f
        /\ date_filter_option = "Latest Date"
        /\ display_columns = available_columns
        /\ select_all = TRUE
        /\ selected_numeric_columns = available_numeric_filters
        /\ custom_range = r.custom_range
        /\ picked_tickers = r.picked_tickers
        /\ value_filter = r.value_filter
        /\ slider_minmax = r.slider_minmax
        /\ filters = r.filters
        /\ page_number = r.page_number
        /\ page_max = r.page_max
        /\ df = r.df
        /\ date_range = r.date_range
        /\ filtered_df = r.filtered_df
        /\ filtered_df_paginated = r.filtered_df_paginated
        /\ csv = r.csv
        /\ prev_rows = Len(r.df)

(* A re-execution after an interaction has changed the session state *)
Rerun(option, custom, dcols, all, picks, ncols, sessMode, sessValue, sessPage) ==
    Finish(Script(LoadedFrame, option, custom, dcols, all, picks, ncols,
                  sessMode, sessValue, slider_minmax, sessPage,
                  page_max),
           option, dcols, all, ncols)

----------------------------------------------------------------------------
(* The user's interactions *)

SetDateFilter(option) ==
    /\ option # date_filter_option
    /\ Rerun(option, <<>>, display_columns, select_all, picked_tickers,
             selected_numeric_columns, value_filter, filters, page_number)

SetCustomDates(start, end) ==
    /\ date_filter_option = "Custom Date Range"
    /\ start <= end
    /\ <<start, end>> # custom_range
    /\ Rerun(date_filter_option, <<start, end>>, display_columns, select_all,
             picked_tickers, selected_numeric_columns, value_filter, filters,
             page_number)

ToggleSelectAll ==
    Rerun(date_filter_option, custom_range, display_columns, ~select_all,
          IF select_all THEN DefaultPicks(symbols(LoadedFrame)) ELSE {},
          selected_numeric_columns, value_filter, filters, page_number)

SelectSymbols(picks) ==
    /\ ~select_all
    /\ picks # picked_tickers
    /\ Rerun(date_filter_option, custom_range, display_columns, select_all, picks,
             selected_numeric_columns, value_filter, filters, page_number)

AddNumericColumn(col) ==
    /\ col \notin Range(selected_numeric_columns)
    /\ Rerun(date_filter_option, custom_range, display_columns, select_all,
             picked_tickers, Append(selected_numeric_columns, col), value_filter,
             filters, page_number)

RemoveNumericColumn(col) ==
    /\ col \in Range(selected_numeric_columns)
    /\ Rerun(date_filter_option, custom_range, display_columns, select_all,
             picked_tickers, SelectSeq(selected_numeric_columns, LAMBDA c : c # col),
             value_filter, filters, page_number)

SetValueFilter(col, mode) ==
    /\ col \in Range(selected_numeric_columns)
    /\ mode # value_filter[col]
    /\ Rerun(date_filter_option, custom_range, display_columns, select_all,
             picked_tickers, selected_numeric_columns,
             [value_filter EXCEPT ![col] = mode], filters, page_number)

SetRange(col, lo, hi) ==
    /\ col \in DOMAIN filters
    /\ lo <= hi
    /\ <<lo, hi>> # filters[col]
    /\ Rerun(date_filter_option, custom_range, display_columns, select_all,
             picked_tickers, selected_numeric_columns, value_filter,
             [filters EXCEPT ![col] = <<lo, hi>>], page_number)

SetPage(page) ==
    /\ page_number # NoPage
    /\ page \in 1..page_max
    /\ page # page_number
    /\ Rerun(date_filter_option, custom_range, display_columns, select_all,
             picked_tickers, selected_numeric_columns, value_filter, filters, page)

AddDisplayColumn(col) ==
    /\ col \notin Range(display_columns)
    /\ Rerun(date_filter_option, custom_range, Append(display_columns, col),
             select_all, picked_tickers, selected_numeric_columns, value_filter,
             filters, page_number)

RemoveDisplayColumn(col) ==
    /\ col \in Range(display_columns)
    /\ Rerun(date_filter_option, custom_range,
             SelectSeq(display_columns, LAMBDA c : c # col), select_all,
             picked_tickers, selected_numeric_columns, value_filter, filters,
             page_number)

----------------------------------------------------------------------------
(* The CSVs of the filter sessions: the rows of RowPool, in order, that a set of
   at most maxRows positions picks *)

RowPool ==
    << CsvRow(Day0,      "INFY", 2,      3),
       CsvRow(Day0 - 1,  "TCS",  -1,     1),
       CsvRow(Day0 - 7,  "INFY", 0,      NaN),
       CsvRow(Day0 - 8,  "TCS",  NaN,    2),
       CsvRow(Day0 - 30, "INFY", PosInf, -1),
       CsvRow(NaT,       "TCS",  1,      1),
       CsvRow(Day0,      "NaN",  1,      2) >>

RowsAt(S) == SelectSeq(RowPool, LAMBDA r : \E i \in S : RowPool[i] = r)

Files(maxRows) == {RowsAt(S) : S \in {T \in SUBSET DOMAIN RowPool : Cardinality(T) <= maxRows}}

(* The numeric session: the numeric columns, their sign modes and ranges, and
   the date filter between the latest date and the last month *)

Init == \E f \in Files(MaxRows) : FirstRun(f)

Next ==
    \/ \E option \in {"Latest Date", "Last 1 Month"} : SetDateFilter(option)
    \/ \E col \in Range(numeric_columns) : AddNumericColumn(col)
    \/ \E col \in Range(numeric_columns) : RemoveNumericColumn(col)
    \/ \E col \in Range(numeric_columns), mode \in ValueFilters : SetValueFilter(col, mode)
    \/ \E col \in DOMAIN filters :
           \E lo \in slider_minmax[col][1]..slider_minmax[col][2],
              hi \in slider_minmax[col][1]..slider_minmax[col][2] : SetRange(col, lo, hi)

Spec == Init /\ [][Next]_vars

(* The window session: the date filter, the custom dates, the symbols, and the
   sign mode and range of the preselected column *)

InitWindow == \E f \in Files(MaxWindowRows) : FirstRun(f)

NextWindow ==
    \/ \E option \in DateOptions : SetDateFilter(option)
    \/ \E start \in Dates(LoadedFrame), end \in Dates(LoadedFrame) :
           SetCustomDates(start, end)
    \/ ToggleSelectAll
    \/ \E picks \in SUBSET Range(symbols(LoadedFrame)) : SelectSymbols(picks)
    \/ \E col \in Range(numeric_columns), mode \in ValueFilters : SetValueFilter(col, mode)
    \/ \E col \in DOMAIN filters :
           \E lo \in slider_minmax[col][1]..slider_minmax[col][2],
              hi \in slider_minmax[col][1]..slider_minmax[col][2] : SetRange(col, lo, hi)

SpecWindow == InitWindow /\ [][NextWindow]_vars

(* The paging session: long CSVs, the page slider, the symbols, the sign mode
   and the display columns *)

PageRow(i, stride) ==
    CsvRow(Day0, IF i % stride = 0 THEN "INFY" ELSE "TCS",
           IF i % 4 = 0 THEN -1 ELSE 1, i)

PageFiles == {[i \in 1..n |-> PageRow(i, stride)] : n \in 0..MaxPageRows, stride \in 1..MaxStride}

InitPage == \E f \in PageFiles : FirstRun(f)

NextPage ==
    \/ \E page \in 1..MaxPage(MaxPageRows) : SetPage(page)
    \/ ToggleSelectAll
    \/ \E picks \in SUBSET Range(symbols(LoadedFrame)) : SelectSymbols(picks)
    \/ \E col \in Range(numeric_columns), mode \in ValueFilters : SetValueFilter(col, mode)
    \/ \E col \in {"Ticker Symbol", "Close"} : AddDisplayColumn(col)
    \/ \E col \in {"Ticker Symbol", "Close"} : RemoveDisplayColumn(col)

SpecPage == InitPage /\ [][NextPage]_vars

----------------------------------------------------------------------------
(* Properties *)

Indices(frame) == [i \in DOMAIN frame |-> frame[i]["index"]]
Ordered(frame) ==
    \A j \in DOMAIN frame, k \in DOMAIN frame : j < k => frame[j]["index"] < frame[k]["index"]

(* The FilterSet the current execution ran with *)
SelectedSymbols ==
    IF select_all
    THEN {file[i]["Ticker Symbol"] : i \in {j \in DOMAIN file : file[j]["Trade Date"] # NaT}}
         \ {"NaN"}
    ELSE picked_tickers
DefaultRanges == \A c \in DOMAIN filters : filters[c] = slider_minmax[c]

(* Positions (0-based, as the index) of the CSV rows with a valid date *)
ValidRows == {i \in 0..(Len(file) - 1) : file[i + 1]["Trade Date"] # NaT}
Cell(i, col) == file[i + 1][col]
(* The numeric cell with the infinities taken as missing *)
Num(i, col) == IF Cell(i, col) \in {PosInf, NegInf} THEN NaN ELSE Cell(i, col)

SignHolds(mode, v) ==
    /\ mode = "Only Positive (>0)" => (v # NaN /\ v > 0)
    /\ mode = "Only Negative (<0)" => (v # NaN /\ v < 0)
InWindow(d) == date_range[1] # NaT /\ date_range[1] <= d /\ d <= date_range[2]
InRange(col, v) == v # NaN /\ filters[col][1] <= v /\ v <= filters[col][2]

(* CSV rows that pass the sign filters of the first k selected columns *)
PassSigns(k) ==
    {i \in ValidRows :
        \A j \in 1..k : SignHolds(value_filter[selected_numeric_columns[j]],
                                  Num(i, selected_numeric_columns[j]))}

(* C1: the Filter Compositor's output is exactly the rows of the working
   Dataset, in their original order, with symbol in the selected symbols, date
   inside the window and every active range satisfied: none that fails one of
   them is in the output, none that satisfies all is missing. *)
C1_CompositorExact ==
    LET Sat(r) == /\ r["Ticker Symbol"] \in SelectedSymbols
                  /\ InWindow(r["Trade Date"])
                  /\ \A c \in DOMAIN filters : InRange(c, r[c])
        kept == {i \in DOMAIN df : Sat(df[i])}
    IN  /\ \A j \in DOMAIN filtered_df :
               \E i \in kept :
                   filtered_df[j] = [df[i] EXCEPT !["Ticker Symbol"] = make_tradingview_link(@)]
        /\ \A i \in kept : \E j \in DOMAIN filtered_df : filtered_df[j]["index"] = df[i]["index"]
        /\ Len(filtered_df) = Cardinality(kept)
        /\ Ordered(filtered_df)

C1_Witness ==
    /\ ~select_all
    /\ date_filter_option = "Custom Date Range"
    /\ \E c \in DOMAIN filters : filters[c] # slider_minmax[c]
    /\ Len(filtered_df) >= 1
    /\ Len(filtered_df) < Len(df)

(* C2: with latest the maximum trade date, the window is (latest, latest) for
   Latest Date, (latest - 1, latest) for Yesterday, (latest - 7, latest) for
   Last 1 Week and (latest - 30, latest) for Last 1 Month; every preset window
   ends at latest and has start <= end. *)
C2_PresetWindows ==
    ValidRows # {} =>
        LET latest == MaxOf({Cell(i, "Trade Date") : i \in ValidRows})
        IN  /\ date_filter_option = "Latest Date" => date_range = <<latest, latest>>
            /\ date_filter_option = "Yesterday" => date_range = <<latest - 1, latest>>
            /\ date_filter_option = "Last 1 Week" => date_range = <<latest - 7, latest>>
            /\ date_filter_option = "Last 1 Month" => date_range = <<latest - 30, latest>>
            /\ date_filter_option # "Custom Date Range" =>
                   (date_range[2] = latest /\ date_range[1] <= date_range[2])

C2_Witness ==
    /\ date_filter_option = "Last 1 Week"
    /\ date_range = <<DaysFromCivil(2024, 6, 3), DaysFromCivil(2024, 6, 10)>>

Slice(frame, p) ==
    LET from == (p - 1) * rows_per_page
        to == IF p * rows_per_page < Len(frame) THEN p * rows_per_page ELSE Len(frame)
    IN  IF from >= Len(frame) THEN <<>> ELSE [j \in 1..(to - from) |-> frame[from + j]]

RECURSIVE Pages(_, _, _)
Pages(frame, p, last) ==
    IF p > last THEN <<>> ELSE Paginate(frame, p) \o Pages(frame, p + 1, last)

(* C3: with more than rows_per_page filtered rows, page p is exactly
   rows[(p-1)*rows_per_page : min(p*rows_per_page, count)] (empty from
   (p-1)*rows_per_page >= count on), the pages 1..(count // rows_per_page)+1 in
   order give back the filtered set; with at most rows_per_page rows the whole
   set is the page. *)
C3_Pages ==
    LET count == Len(filtered_df)
    IN  IF count > rows_per_page
        THEN /\ filtered_df_paginated = Slice(filtered_df, page_number)
             /\ \A p \in 1..((count \div rows_per_page) + 3) :
                    Paginate(filtered_df, p) = Slice(filtered_df, p)
             /\ Pages(filtered_df, 1, (count \div rows_per_page) + 1) = filtered_df
        ELSE filtered_df_paginated = filtered_df

C3_Witness ==
    /\ Len(filtered_df) = 25
    /\ page_number = 3
    /\ Indices(filtered_df_paginated) = <<20, 21, 22, 23, 24>>

(* C4: with more than rows_per_page rows the selectable pages are exactly
   1..(num_rows // rows_per_page)+1, and a selectable page is empty exactly when
   num_rows is a multiple of rows_per_page and the page is the largest one. *)
C4_SelectablePages ==
    LET num_rows == Len(filtered_df)
        last == (num_rows \div rows_per_page) + 1
    IN  num_rows > rows_per_page =>
            /\ page_max = last
            /\ page_number \in 1..page_max
            /\ \A p \in 1..last :
                   Paginate(filtered_df, p) = <<>> <=> (num_rows % rows_per_page = 0 /\ p = last)

C4_Witness ==
    /\ Len(filtered_df) = 20
    /\ page_number = 3
    /\ filtered_df_paginated = <<>>

Reverse(s) == [i \in DOMAIN s |-> s[Len(s) + 1 - i]]
Reordered ==
    Script(LoadedFrame, date_filter_option, custom_range, display_columns, select_all,
           picked_tickers, Reverse(selected_numeric_columns), value_filter, <<>>, <<>>,
           page_number, page_max)
SignModesOnly ==
    /\ selected_numeric_columns # <<>>
    /\ \A c \in Range(selected_numeric_columns) : value_filter[c] # "All"
    /\ DefaultRanges

(* C5: with every selected numeric field in a sign mode (positive or negative)
   and every range at its default, the filtered set is the rows that satisfy all
   the sign predicates at once (with the symbols and the window), and it is the
   same for the fields iterated in the opposite order. *)
C5_SignOrderIndependent ==
    SignModesOnly =>
        /\ Range(Indices(filtered_df)) =
               {i \in ValidRows :
                   /\ Cell(i, "Ticker Symbol") \in SelectedSymbols
                   /\ InWindow(Cell(i, "Trade Date"))
                   /\ \A c \in Range(selected_numeric_columns) :
                          SignHolds(value_filter[c], Num(i, c))}
        /\ Ordered(filtered_df)
        /\ Reordered.filtered_df = filtered_df

C5_Witness ==
    /\ SignModesOnly
    /\ Len(selected_numeric_columns) = 2
    /\ filtered_df # <<>>
    /\ Reordered.slider_minmax # slider_minmax

RECURSIVE SignFilters(_, _, _, _)
SignFilters(frame, cols, k, modes) ==
    IF k > Len(cols) THEN frame
    ELSE SignFilters(ApplyValueFilter(Scrub(frame, cols[k]), cols[k], modes[cols[k]]),
                     cols, k + 1, modes)

ApplyFilterSet(frame) ==
    Compositor(SignFilters(frame, selected_numeric_columns, 1, value_filter),
               SelectedSymbols, date_range, selected_numeric_columns, filters)

C7_ExportWhole ==
    /\ csv[1] = display_columns
    /\ Len(csv) = Len(filtered_df) + 1
    /\ \A i \in DOMAIN filtered_df :
           /\ DOMAIN csv[i + 1] = DOMAIN display_columns
           /\ \A j \in DOMAIN display_columns :
                  csv[i + 1][j] = filtered_df[i][display_columns[j]]
    /\ \A p \in 1..MaxPage(Len(filtered_df)) :
           Script(LoadedFrame, date_filter_option, custom_range, display_columns,
                  select_all, picked_tickers, selected_numeric_columns, value_filter,
                  filters, slider_minmax, p, page_max).csv = csv
    /\ \A k \in DOMAIN filtered_df_paginated :
           \E i \in DOMAIN filtered_df :
               /\ filtered_df[i] = filtered_df_paginated[k]
               /\ \A j \in DOMAIN display_columns :
                      csv[i + 1][j] = filtered_df_paginated[k][display_columns[j]]

C7_Witness ==
    /\ Len(filtered_df) > 2 * rows_per_page
    /\ page_number = 2
    /\ display_columns = <<"Trade Date", "CHG%", "Close", "Ticker Symbol">>
    /\ Len(csv) > Len(filtered_df_paginated) + 1

(* C8: the range offered for the N-th selected field is the minimum and maximum
   of its non-missing values over the rows that pass the sign filters of fields
   1..N, and the field has a range exactly when such a value exists. *)
C8_RangeOffered ==
    \A n \in DOMAIN selected_numeric_columns :
        LET col == selected_numeric_columns[n]
            vals == {Num(i, col) : i \in PassSigns(n)} \ {NaN}
        IN  /\ col \in DOMAIN filters <=> vals # {}
            /\ col \in DOMAIN slider_minmax <=> vals # {}
            /\ vals # {} => slider_minmax[col] = <<MinOf(vals), MaxOf(vals)>>

C8_Witness ==
    /\ Len(selected_numeric_columns) = 2
    /\ LET first == selected_numeric_columns[1]
           second == selected_numeric_columns[2]
       IN  /\ value_filter[first] # "All"
           /\ value_filter[second] # "All"
           /\ first \in DOMAIN filters
           /\ second \in DOMAIN filters
           /\ PassSigns(2) # PassSigns(1)
           /\ slider_minmax[first] # <<MinOf({Num(i, first) : i \in PassSigns(2)}),
                                       MaxOf({Num(i, first) : i \in PassSigns(2)})>>

Without(col) ==
    Script(LoadedFrame, date_filter_option, custom_range, display_columns, select_all,
           picked_tickers, SelectSeq(selected_numeric_columns, LAMBDA c : c # col),
           value_filter, filters, slider_minmax, page_number, page_max)

(* C9: a numeric field selected in mode All with its range at the default
   removes no row: the filtered set is the one obtained with the field not
   selected. *)
C9_AllModeUnconstrained ==
    \A col \in Range(selected_numeric_columns) :
        (value_filter[col] = "All" /\ (col \in DOMAIN filters => filters[col] = slider_minmax[col]))
            => Indices(filtered_df) = Indices(Without(col).filtered_df)

(* C10: after any sequence of interactions the working set and the filtered set
   are determined by the CSV and the current FilterSet alone: the working set is
   every valid row that passes the current sign modes, so a row removed by a
   sign filter is back once the mode is All again or the field is deselected. *)
C10_HistoryIndependent ==
    /\ Range(Indices(df)) = PassSigns(Len(selected_numeric_columns))
    /\ Ordered(df)
    /\ Range(Indices(filtered_df)) =
           {i \in PassSigns(Len(selected_numeric_columns)) :
               /\ Cell(i, "Ticker Symbol") \in SelectedSymbols
               /\ InWindow(Cell(i, "Trade Date"))
               /\ \A c \in DOMAIN filters : InRange(c, Num(i, c))}
    /\ Ordered(filtered_df)

C10_Witness ==
    /\ prev_rows < Len(df)
    /\ \A c \in Range(selected_numeric_columns) : value_filter[c] = "All"
    /\ Len(df) = Cardinality(ValidRows)
    /\ filtered_df # <<>>

====
